---- MODULE Spec2Model ----
(***************************************************************************)
(* Model of mm.c, an implicit-free-list allocator with boundary tags.      *)
(*                                                                         *)
(* Addresses are byte offsets from mem_heap_lo() (taken 8-byte aligned).   *)
(* Memory is an array of 4-byte words, indexed by the byte address of the  *)
(* word.  The heap is [0, mem_brk); mem_heap_hi() is mem_brk - 1.  The     *)
(* arena behind the heap is larger than the heap: words at addresses       *)
(* >= mem_brk exist physically and hold whatever the arena held when it    *)
(* was obtained (its content is not initialised by anybody).               *)
(*                                                                         *)
(* Every public operation (mm_init, mm_malloc, mm_free) is one atomic      *)
(* action: the allocator is single threaded and synchronous.  The client   *)
(* program is modelled by the UserWrite action, which stores a word into   *)
(* the payload of a live allocation.                                       *)
(***************************************************************************)
EXTENDS Integers, Sequences, FiniteSets, TLC

(* ------------------------------ bounds -------------------------------- *)
\* size of the arena, in double words (8 bytes)
MaxHeapDW == 8
\* number of payload word stores the client performs
MaxWrites == 1
\* number of calls of mm_init, mm_malloc and mm_free the client performs
MaxCalls == 6
\* number of calls in the longer runs of SpecLong
MaxLongCalls == 8

MaxHeap == 8 * MaxHeapDW
\* the words that exist physically: the arena and the word just behind it
Addr == {a \in 0..MaxHeap : a % 4 = 0}
\* request sizes passed to mm_malloc
Reqs == {0, 1, 8, 16}
\* words the client stores into its payloads
UserVals == {8, 16}
\* possible content of the arena before anybody wrote to it
FreshVals == {0, 8, 9}
\* limits the growth primitive may have (mem_max_addr - mem_start_brk)
Caps == {8, MaxHeap}

(* --------------------------- program constants ------------------------ *)
ALIGNMENT == 8
NULL == -1

VARIABLES
    mem,          \* the arena: word address -> unsigned int
    mem_brk,      \* size of the heap in bytes (memlib's brk - start)
    mem_max,      \* capacity of the growth primitive in bytes
    heap_startp,  \* mm.c's static heap_startp (NULL before mm_init)
    fault,        \* "none", "segv" (access outside the arena), "abort" (assert)
    live,         \* allocations the client holds: set of [p, n]
    writes,       \* number of client stores so far
    calls,        \* number of allocator calls so far
    last,         \* the last public call: its arguments, result and effects
    failed        \* history: some mm_malloc call has returned NULL

vars == <<mem, mem_brk, mem_max, heap_startp, fault, live, writes, calls, last,
          failed>>

(* ------------------------------ macros -------------------------------- *)
\* ALIGN rounding up to single word (4) alignment
ALIGN_Word(size) == ((size + 3) \div 4) * 4

\* #define ALIGN(size) (((size) + (ALIGNMENT-1)) & ~0x7)
ALIGN(size) == ((size + (ALIGNMENT - 1)) \div 8) * 8

\* #define PACK(size, alloc) (size | alloc), alloc in {0, 1}
PACK(size, alloc) == IF alloc = 1 /\ size % 2 = 0 THEN size + 1 ELSE size

\* value & ~0x7 and value & 1 of a word value
SizeOf(val) == val - (val % 8)
AllocOf(val) == val % 2

\* #define HDRP(bp) ((char *)(bp) - 4)
HDRP(bp) == bp - 4

(***************************************************************************)
(* The machine state threaded through the body of one call:                *)
(*   mem, brk  memory and heap size                                        *)
(*   fault     "none" until an access leaves the arena or an assert fails  *)
(*   oob       TRUE once a word outside [0, brk) has been read or written  *)
(*   sbrk      the calls of mem_sbrk made in this call: increment, result  *)
(***************************************************************************)
Machine == [mem |-> mem, brk |-> mem_brk, fault |-> fault, oob |-> FALSE,
            sbrk |-> <<>>]

\* GET(p): the value read; an address outside the arena reads as 0 and the
\* access is recorded by Touch
GET(m, p) == IF p \in Addr THEN m.mem[p] ELSE 0

\* the bookkeeping of one access to word p
Touch(m, p) ==
    IF m.fault # "none" THEN m
    ELSE IF p \notin Addr THEN [m EXCEPT !.fault = "segv"]
    ELSE [m EXCEPT !.oob = @ \/ (p >= m.brk)]

\* #define PUT(p, val) (*(unsigned int *)(p) = val)
PUT(m, p, val) ==
    IF m.fault # "none" THEN m
    ELSE IF p \notin Addr THEN [m EXCEPT !.fault = "segv"]
    ELSE [m EXCEPT !.mem[p] = val, !.oob = @ \/ (p >= m.brk)]

\* #define GET_SIZE(p) (GET(p) & ~0x7)
GET_SIZE(m, p) == SizeOf(GET(m, p))
\* #define GET_ALLOC(p) (GET(p) & 1)
GET_ALLOC(m, p) == AllocOf(GET(m, p))
\* #define FTRP(bp) ((char *)(bp) + GET_SIZE(HDRP(bp)) - 8)
FTRP(m, bp) == bp + GET_SIZE(m, HDRP(bp)) - 8
\* #define NEXT_BLKP(bp) ((char *)bp + GET_SIZE(HDRP(bp)))
NEXT_BLKP(m, bp) == bp + GET_SIZE(m, HDRP(bp))
\* #define PREV_BLKP(bp) ((char *)bp - GET_SIZE((char *)bp - 8))
PREV_BLKP(m, bp) == bp - GET_SIZE(m, bp - 8)

\* the statements PUT(HDRP(bp), val), PUT(FTRP(bp), val), PUT(NEXT_BLKP(bp), val)
PutHdr(m, bp, val) == PUT(m, HDRP(bp), val)
PutFtr(m, bp, val) == PUT(m, FTRP(m, bp), val)
PutNext(m, bp, val) == PUT(m, NEXT_BLKP(m, bp), val)

\* assert(cond): aborts the program when cond is false
c_assert(m, cond) ==
    IF m.fault = "none" /\ ~cond THEN [m EXCEPT !.fault = "abort"] ELSE m

(* ------------------------- growth primitive --------------------------- *)
\* mem_heap_lo(): address of the first heap byte (addresses are relative to it)
mem_heap_lo == 0

\* mem_heap_hi(): address of the last heap byte
mem_heap_hi(m) == m.brk - 1

\* mem_sbrk(incr): grows the heap by incr bytes and returns the old break,
\* or fails with -1 leaving the heap as it was
mem_sbrk(m, incr) ==
    IF m.fault # "none" THEN [m |-> m, ret |-> -1]
    ELSE IF incr < 0 \/ m.brk + incr > mem_max
         THEN [m |-> [m EXCEPT !.sbrk = Append(@, [incr |-> incr, ret |-> -1])],
               ret |-> -1]
         ELSE [m |-> [m EXCEPT !.brk = @ + incr,
                               !.sbrk = Append(@, [incr |-> incr, ret |-> m.brk])],
               ret |-> m.brk]

(* ------------------------------ helpers ------------------------------- *)
(* A function body is a chain of operators, one per group of statements;   *)
(* each takes the machine state the statements before it have produced and *)
(* the locals they have set.                                               *)

\* coalesce, lines 189-192: the merge with the free predecessor
coalesce_merge(m, bp, prev, newsize) ==
    [m |-> PutFtr(PutHdr(m, prev, PACK(newsize, 0)), bp, PACK(newsize, 0)),
     ret |-> prev]

\* coalesce, lines 187-189: m has read the header of prev
coalesce_test(m, bp, prev) ==
    IF m.fault # "none" \/ GET_ALLOC(m, HDRP(prev)) = 1
    THEN [m |-> m, ret |-> bp]
    ELSE coalesce_merge(Touch(m, HDRP(bp)), bp, prev,
                        GET_SIZE(m, HDRP(bp)) + GET_SIZE(m, HDRP(prev)))

\* coalesce, line 186: m has read the word at bp - 8
coalesce_prev(m, bp, prev) == coalesce_test(Touch(m, HDRP(prev)), bp, prev)

\* static void* coalesce(void* bp): merges bp with its predecessor if that
\* is free; returns the payload pointer of the resulting block
coalesce(m, bp) == coalesce_prev(Touch(m, bp - 8), bp, PREV_BLKP(m, bp))

\* split, lines 160-161: the header and footer of the remainder
split_rest(m, nb, remaining) ==
    PutFtr(PutHdr(m, nb, PACK(remaining, 0)), nb, PACK(remaining, 0))

\* static void split(void* bp, int newsize)
split(m, bp, newsize) ==
    split_rest(PutFtr(PutHdr(Touch(m, HDRP(bp)), bp, PACK(newsize, 1)),
                      bp, PACK(newsize, 1)),
               bp + newsize,
               GET_SIZE(m, HDRP(bp)) - newsize)

\* extend_heap, lines 176-182: the new free block, the new epilogue header
\* and the merge with the predecessor
extend_heap_init(m, bp, newsize) ==
    coalesce(PutNext(PutFtr(PutHdr(m, bp, PACK(newsize, 0)),
                            bp, PACK(newsize, 0)),
                     bp, PACK(0, 1)),
             bp)

\* extend_heap without the test of mem_sbrk's result
extend_heap_grow_NoCheck(s, newsize) == extend_heap_init(s.m, s.ret, newsize)

\* extend_heap, lines 172-182: s is what mem_sbrk(newsize) returned
extend_heap_grow(s, newsize) ==
    IF s.ret = -1 THEN [m |-> s.m, ret |-> NULL]
    ELSE extend_heap_init(s.m, s.ret, newsize)

\* extend_heap, lines 167-173: m has read the header of last
extend_heap_last(m, newsize, lastb) ==
    IF GET_ALLOC(m, HDRP(lastb)) = 0
    THEN extend_heap_grow(
             mem_sbrk(c_assert(m, GET_SIZE(m, HDRP(lastb)) < newsize),
                      newsize - GET_SIZE(m, HDRP(lastb))),
             newsize - GET_SIZE(m, HDRP(lastb)))
    ELSE extend_heap_grow(mem_sbrk(m, newsize), newsize)

\* extend_heap, line 166: m has read the word at epilogue_bp - 8
extend_heap_prev(m, newsize, lastb) ==
    extend_heap_last(Touch(m, HDRP(lastb)), newsize, lastb)

\* static void* extend_heap(int newsize)
extend_heap(m, newsize) ==
    extend_heap_prev(Touch(m, (mem_heap_hi(m) - 3) - 8), newsize,
                     PREV_BLKP(m, mem_heap_hi(m) - 3))

\* the first-fit loop of mm_malloc: the payload pointer of the first free
\* block of at least newsize bytes, NULL when the loop reaches a size 0 header
RECURSIVE FindFit(_, _, _)
FindFit(m, current, newsize) ==
    IF Touch(m, HDRP(current)).fault # "none" \/ GET_SIZE(m, HDRP(current)) = 0
    THEN [m |-> Touch(m, HDRP(current)), ret |-> NULL]
    ELSE IF GET_ALLOC(m, HDRP(current)) = 0
            /\ GET_SIZE(m, HDRP(current)) >= newsize
    THEN [m |-> Touch(m, HDRP(current)), ret |-> current]
    ELSE FindFit(Touch(m, HDRP(current)), NEXT_BLKP(m, current), newsize)

\* mm_malloc, lines 119-121 and 129-132: tag the block and return it
mm_malloc_tag(m, bp, newsize) ==
    [m |-> PutFtr(PutHdr(m, bp, PACK(newsize, 1)), bp, PACK(newsize, 1)),
     ret |-> bp]

\* mm_malloc, lines 118-121: the block found by the search
mm_malloc_found(m, current, newsize) ==
    mm_malloc_tag(IF GET_SIZE(m, HDRP(current)) # newsize
                  THEN split(m, current, newsize) ELSE m,
                  current, newsize)

\* mm_malloc, lines 127-132: e is what extend_heap returned
mm_malloc_grown(e, newsize) ==
    IF e.ret = NULL THEN e ELSE mm_malloc_tag(e.m, e.ret, newsize)

\* mm_malloc, lines 117-132: f is the outcome of the search loop
mm_malloc_search(f, newsize) ==
    IF f.ret # NULL THEN mm_malloc_found(f.m, f.ret, newsize)
    ELSE mm_malloc_grown(extend_heap(f.m, newsize), newsize)

\* void *mm_malloc(size_t size)
mm_malloc(m, size) ==
    mm_malloc_search(FindFit(m, heap_startp, ALIGN(size + 8)), ALIGN(size + 8))

\* mm_free, lines 141-143: size is the size read from the header
mm_free_size(m, ptr, size) ==
    coalesce(PutFtr(PutHdr(m, ptr, PACK(size, 0)), ptr, PACK(size, 0)), ptr).m

\* void mm_free(void *ptr)
mm_free(m, ptr) == mm_free_size(Touch(m, HDRP(ptr)), ptr, GET_SIZE(m, HDRP(ptr)))

\* void *mm_realloc(void *ptr, size_t size): the body is empty, so the call
\* changes nothing and its result is whatever the return register holds; r
\* is that value
mm_realloc(m, ptr, size, r) == [m |-> m, ret |-> r]

\* mm_init without the test of mem_sbrk's result
mm_init_layout_NoCheck(s, heap_start) ==
    [m |-> PUT(PUT(PUT(PUT(s.m, heap_start, 0),
                       heap_start + 4, PACK(8, 1)),
                   heap_start + 8, PACK(8, 1)),
               heap_start + 12, PACK(0, 1)),
     ret |-> 0, startp |-> heap_start + 8]

\* mm_init, lines 81-99: s is what mem_sbrk(4 * 4) returned
mm_init_layout(s, heap_start) ==
    IF s.ret = -1 THEN [m |-> s.m, ret |-> -1, startp |-> heap_startp]
    ELSE [m |-> PUT(PUT(PUT(PUT(s.m, heap_start, 0),
                            heap_start + 4, PACK(8, 1)),
                        heap_start + 8, PACK(8, 1)),
                    heap_start + 12, PACK(0, 1)),
          ret |-> 0, startp |-> heap_start + 8]

\* int mm_init(void)
mm_init(m) == mm_init_layout(mem_sbrk(m, 4 * 4), mem_heap_lo)

(* ------------------------------ actions ------------------------------- *)
\* the record of a public call: its argument (a size or a pointer), the size
\* argument of mm_realloc, its result, and what the call did
Call(op, arg, size, ret, m) ==
    [op |-> op, arg |-> arg, size |-> size, ret |-> ret,
     sbrk |-> m.sbrk, oob |-> m.oob]

\* the machine state a call ends with becomes the program's state
Commit(m) ==
    /\ mem' = m.mem
    /\ mem_brk' = m.brk
    /\ fault' = m.fault

Init ==
    /\ \E j \in FreshVals : mem = [a \in Addr |-> j]
    /\ mem_max \in Caps
    /\ mem_brk = 0
    /\ heap_startp = NULL
    /\ fault = "none"
    /\ live = {}
    /\ writes = 0
    /\ calls = 0
    /\ last = [op |-> "none", arg |-> 0, size |-> 0, ret |-> 0,
               sbrk |-> <<>>, oob |-> FALSE]
    /\ failed = FALSE

InitDone(r) ==
    /\ Commit(r.m)
    /\ heap_startp' = r.startp
    /\ last' = Call("init", 0, 0, r.ret, r.m)

\* main() calls mm_init once, before anything else
MmInit ==
    /\ last.op = "none"
    /\ calls' = calls + 1
    /\ InitDone(mm_init(Machine))
    /\ UNCHANGED <<mem_max, live, writes, failed>>

MallocDone(n, r) ==
    /\ Commit(r.m)
    /\ live' = IF r.m.fault = "none" /\ r.ret # NULL
               THEN live \cup {[p |-> r.ret, n |-> n]} ELSE live
    /\ last' = Call("malloc", n, 0, r.ret, r.m)
    /\ failed' = (failed \/ (r.m.fault = "none" /\ r.ret = NULL))

\* p = mm_malloc(n), in a client program of at most limit calls
MmMallocWithin(n, limit) ==
    /\ heap_startp # NULL
    /\ fault = "none"
    /\ calls < limit
    /\ calls' = calls + 1
    /\ MallocDone(n, mm_malloc(Machine, n))
    /\ UNCHANGED <<mem_max, heap_startp, writes>>

\* p = mm_malloc(n)
MmMalloc(n) == MmMallocWithin(n, MaxCalls)

FreeDone(l, m) ==
    /\ Commit(m)
    /\ last' = Call("free", l.p, 0, 0, m)

\* mm_free(l.p) for an allocation the client holds, in a client program of
\* at most limit calls
MmFreeWithin(l, limit) ==
    /\ fault = "none"
    /\ calls < limit
    /\ calls' = calls + 1
    /\ l \in live
    /\ FreeDone(l, mm_free(Machine, l.p))
    /\ live' = live \ {l}
    /\ UNCHANGED <<mem_max, heap_startp, writes, failed>>

\* mm_free(l.p)
MmFree(l) == MmFreeWithin(l, MaxCalls)

\* the client stores the word v at address a of its allocation l
UserWrite(l, a, v) ==
    /\ fault = "none"
    /\ writes < MaxWrites
    /\ l \in live
    /\ l.p <= a /\ a + 4 <= l.p + l.n
    /\ mem' = [mem EXCEPT ![a] = v]
    /\ writes' = writes + 1
    /\ last' = [op |-> "write", arg |-> a, size |-> 0, ret |-> v,
                sbrk |-> <<>>, oob |-> FALSE]
    /\ UNCHANGED <<mem_brk, mem_max, heap_startp, fault, live, calls, failed>>

Next ==
    \/ MmInit
    \/ \E n \in Reqs : MmMalloc(n)
    \/ \E l \in live : MmFree(l)
    \/ \E l \in live, a \in Addr, v \in UserVals : UserWrite(l, a, v)

Spec == Init /\ [][Next]_vars

NextLong ==
    \/ MmInit
    \/ \E n \in Reqs : MmMallocWithin(n, MaxLongCalls)
    \/ \E l \in live : MmFreeWithin(l, MaxLongCalls)
    \/ \E l \in live, a \in Addr, v \in UserVals : UserWrite(l, a, v)

\* the same program, running for up to MaxLongCalls calls
SpecLong == Init /\ [][NextLong]_vars

\* new sizes passed to mm_realloc
ReallocSizes == {8, 24}
\* values the caller of mm_realloc may find as its result: the null pointer,
\* the argument, another address
ReallocRets(ptr) == {NULL, ptr, ptr + 8}

ReallocDone(l, n, x) ==
    /\ Commit(x.m)
    /\ last' = Call("realloc", l.p, n, x.ret, x.m)

\* q = mm_realloc(l.p, n).  The block at l.p is left as it was, so the client
\* still holds it; the value it got back is recorded in last.
MmRealloc(l, n, r) ==
    /\ heap_startp # NULL
    /\ fault = "none"
    /\ calls < MaxCalls
    /\ calls' = calls + 1
    /\ l \in live
    /\ ReallocDone(l, n, mm_realloc(Machine, l.p, n, r))
    /\ UNCHANGED <<mem_max, heap_startp, live, writes, failed>>

NextRealloc ==
    \/ Next
    \/ \E l \in live, n \in ReallocSizes :
           \E r \in ReallocRets(l.p) : MmRealloc(l, n, r)

\* the program with calls of mm_realloc as well
SpecRealloc == Init /\ [][NextRealloc]_vars

(* --------------------------- the block walk --------------------------- *)
\* print_heap(): the blocks met from heap_startp by adding each header's
\* size, up to the first header of size 0 (or the end of the arena)
RECURSIVE WalkFrom(_)
WalkFrom(bp) ==
    IF HDRP(bp) \notin Addr \/ SizeOf(mem[HDRP(bp)]) = 0 THEN <<>>
    ELSE <<bp>> \o WalkFrom(bp + SizeOf(mem[HDRP(bp)]))

\* the payload pointer at which that walk stops
RECURSIVE WalkEnd(_)
WalkEnd(bp) ==
    IF HDRP(bp) \notin Addr \/ SizeOf(mem[HDRP(bp)]) = 0 THEN bp
    ELSE WalkEnd(bp + SizeOf(mem[HDRP(bp)]))

Blocks == WalkFrom(heap_startp)
BlockSize(bp) == SizeOf(mem[HDRP(bp)])
BlockAlloc(bp) == AllocOf(mem[HDRP(bp)])

RECURSIVE SumSizes(_)
SumSizes(s) == IF s = <<>> THEN 0 ELSE BlockSize(Head(s)) + SumSizes(Tail(s))

\* the allocator is initialised and the program has not crashed
Ready == heap_startp # NULL /\ fault = "none"

(* ------------------------------- claims ------------------------------- *)
\* C1 (as stated): Partition invariant.  In every state reached after mm_init
\* by mm_malloc and mm_free calls, the walk from the prologue ends at a size 0
\* header that is the last word of the heap (heap_hi - 3), and the walked
\* sizes plus the padding word and the epilogue word add up to the heap size.
C1_Partition ==
    Ready =>
        LET e == WalkEnd(heap_startp)
        IN  /\ HDRP(e) \in Addr
            /\ SizeOf(mem[HDRP(e)]) = 0
            /\ HDRP(e) = mem_heap_hi(Machine) - 3
            /\ SumSizes(Blocks) + 4 + 4 = mem_brk

\* the words that hold a byte of the payload range [p, p+n) of allocation l
PayloadWords(l) == {a \in Addr : a < l.p + l.n /\ a + 4 > l.p}

\* the byte ranges of two allocations have no byte in common
Disjoint(l1, l2) == l1.p + l1.n <= l2.p \/ l2.p + l2.n <= l1.p \/ l1.n = 0 \/ l2.n = 0

\* every live payload range lies inside the heap [heap_lo, heap_hi]
C2_InBounds ==
    \A l \in live : l.n > 0 => (0 <= l.p /\ l.p + l.n - 1 <= mem_heap_hi(Machine))

\* a completed mm_malloc hands out a range disjoint from every live range
C2_FreshRange ==
    (last'.op = "malloc" /\ last'.ret # NULL /\ fault' = "none")
        => \A l \in live : Disjoint(l, [p |-> last'.ret, n |-> last'.arg])

\* a completed mm_malloc or mm_free changes no word of a payload that is
\* live before and after the call
C2_Untouched ==
    (last'.op \in {"malloc", "free"} /\ fault' = "none")
        => \A l \in live \cap live' : \A a \in PayloadWords(l) : mem'[a] = mem[a]

\* C2 (as stated): Live payloads are never overlapped.  Every live range
\* [p, p+n) lies inside the heap bounds, is disjoint from every other live
\* range, and no allocator call writes a word of it, so that stored bytes are
\* read back unchanged after unrelated mm_malloc and mm_free calls.
C2_LivePayloads ==
    /\ [](Ready => C2_InBounds)
    /\ [][C2_FreshRange /\ C2_Untouched]_vars

\* C3 (as stated): No-adjacent-free.  After any public operation returns, no
\* two consecutive blocks of the walk are both free.
C3_NoAdjacentFree ==
    Ready =>
        \A i \in 1..(Len(Blocks) - 1) :
            ~(BlockAlloc(Blocks[i]) = 0 /\ BlockAlloc(Blocks[i + 1]) = 0)

\* the footer word of the block whose payload pointer is bp
FooterAddr(bp) == HDRP(bp) + BlockSize(bp) - 4

\* C4 (as stated): Tag agreement.  After a public operation returns, every
\* block of the walk has a footer word, at header address + size - 4, that
\* encodes the same size and the same allocated bit as its header.
C4_TagAgreement ==
    Ready =>
        \A i \in 1..Len(Blocks) :
            /\ FooterAddr(Blocks[i]) \in Addr
            /\ SizeOf(mem[FooterAddr(Blocks[i])]) = BlockSize(Blocks[i])
            /\ AllocOf(mem[FooterAddr(Blocks[i])]) = BlockAlloc(Blocks[i])

\* C5: Alignment.  Every pointer a completed mm_malloc returns is a multiple
\* of 8 (heap_lo being 8-byte aligned), and the header word of every block of
\* the walk holds a multiple of 8 packed with the allocated bit only (bits 1
\* and 2 are zero).
C5_Alignment ==
    Ready =>
        /\ (last.op = "malloc" /\ last.ret # NULL) => last.ret % ALIGNMENT = 0
        /\ \A l \in live : l.p % ALIGNMENT = 0
        /\ \A i \in 1..Len(Blocks) :
               /\ mem[HDRP(Blocks[i])] % 8 \in {0, 1}
               /\ BlockSize(Blocks[i]) % ALIGNMENT = 0

\* a state in which mm_malloc has just returned a block for a request that is
\* no multiple of 8, behind other blocks
C5_Witness ==
    /\ Ready /\ last.op = "malloc" /\ last.arg = 1
    /\ last.ret # NULL /\ last.ret > 16 /\ Len(Blocks) >= 3

\* the free blocks of the walk that can hold a request of n bytes
Fits(n) ==
    {Blocks[i] : i \in {j \in 1..Len(Blocks) :
                          /\ BlockAlloc(Blocks[j]) = 0
                          /\ BlockSize(Blocks[j]) >= ALIGN(n + 8)}}

Lowest(S) == CHOOSE x \in S : \A y \in S : x <= y

\* whenever some free block fits, mm_malloc returns the lowest one and does
\* not call the growth primitive
C6_General ==
    (Ready /\ last'.op = "malloc" /\ Fits(last'.arg) # {})
        => /\ fault' = "none"
           /\ last'.ret = Lowest(Fits(last'.arg))
           /\ last'.sbrk = <<>>
           /\ mem_brk' = mem_brk

\* the state of main() after mm_init; p = mm_malloc(16); mm_free(p); mm_malloc(8)
C6_AfterReuse ==
    /\ Ready /\ calls = 4 /\ mem_brk = 40 /\ mem_max >= 56
    /\ last.op = "malloc" /\ last.arg = 8 /\ last.ret = 16 /\ last.sbrk = <<>>
    /\ live = {[p |-> 16, n |-> 8]}

\* in that state a following mm_malloc(8) returns an address beyond the first
\* block's footer (the word at 24)
C6_Following ==
    (C6_AfterReuse /\ last'.op = "malloc" /\ last'.arg = 8)
        => (fault' = "none" /\ last'.ret # NULL /\ last'.ret > 24)

\* C6 (as stated): First-fit reuse without growth.  Whenever some free block
\* fits, mm_malloc returns the lowest one without growing the heap; and after
\* mm_init; p = mm_malloc(16); mm_free(p); mm_malloc(8) (which returns p) a
\* following mm_malloc(8) returns an address beyond the first block's footer.
C6_FirstFit == [][C6_General /\ C6_Following]_vars

\* the growth primitive was called in the last call and refused
GrowthRefused(c) == c.sbrk # <<>> /\ c.sbrk[Len(c.sbrk)].ret = -1

\* C7: Out-of-memory leaves the heap untouched.  When no free block fits and
\* the growth primitive fails, mm_malloc returns NULL and every heap word and
\* the heap bounds are what they were before the call.
C7_OomUntouched ==
    [][(Ready /\ last'.op = "malloc" /\ Fits(last'.arg) = {}
           /\ GrowthRefused(last'))
        => /\ fault' = "none"
           /\ last'.ret = NULL
           /\ mem_brk' = mem_brk
           /\ \A a \in Addr : a < mem_brk => mem'[a] = mem[a]]_vars

\* a state in which mm_malloc has just failed on a refused growth request
\* while the client holds an allocation
C7_Witness ==
    /\ Ready /\ last.op = "malloc" /\ last.ret = NULL
    /\ GrowthRefused(last) /\ live # {}

\* the pointer p is the payload of an allocated block of at least size bytes
\* that lies inside the heap
ValidPayload(M, brk, p, size) ==
    /\ HDRP(p) \in Addr
    /\ AllocOf(M[HDRP(p)]) = 1
    /\ SizeOf(M[HDRP(p)]) >= size
    /\ HDRP(p) + SizeOf(M[HDRP(p)]) <= brk

\* C8 (as stated): mm_malloc fails only on growth failure.  Every call
\* completes; it returns NULL exactly when no free block fits and the growth
\* primitive refused the request of that call, and a valid payload pointer
\* otherwise.
C8_FailsOnlyOnGrowth ==
    [][(Ready /\ last'.op = "malloc")
        => /\ fault' = "none"
           /\ (last'.ret = NULL)
                  <=> (Fits(last'.arg) = {} /\ GrowthRefused(last'))
           /\ (last'.ret # NULL)
                  => ValidPayload(mem', mem_brk', last'.ret,
                                  ALIGN(last'.arg + 8))]_vars

\* C9 (as stated): Sentinels are permanent.  After mm_init the prologue header
\* and footer (heap_lo + 4, heap_lo + 8) encode size 8 / allocated, and the
\* last word of the heap (heap_hi - 3) encodes size 0 / allocated.
C9_Sentinels ==
    Ready =>
        /\ SizeOf(mem[4]) = 8 /\ AllocOf(mem[4]) = 1
        /\ SizeOf(mem[8]) = 8 /\ AllocOf(mem[8]) = 1
        /\ SizeOf(mem[mem_heap_hi(Machine) - 3]) = 0
        /\ AllocOf(mem[mem_heap_hi(Machine) - 3]) = 1

\* the case of C10 for the block at ptr and the new size: the new size does not
\* fit the block, its successor is free, and both together hold it
GrowInPlaceCase(ptr, size) ==
    /\ HDRP(ptr) \in Addr /\ BlockAlloc(ptr) = 1
    /\ BlockSize(ptr) < ALIGN(size + 8)
    /\ HDRP(ptr + BlockSize(ptr)) \in Addr
    /\ BlockAlloc(ptr + BlockSize(ptr)) = 0
    /\ BlockSize(ptr) + BlockSize(ptr + BlockSize(ptr)) >= ALIGN(size + 8)

\* C10 (as stated): Resize grows in place.  In that case mm_realloc returns
\* the pointer it was given, and the block at it is tagged allocated, in
\* header and footer, with room for the new size.
C10_ResizeInPlace ==
    [][(Ready /\ last'.op = "realloc" /\ GrowInPlaceCase(last'.arg, last'.size))
        => /\ last'.ret = last'.arg
           /\ ValidPayload(mem', mem_brk', last'.arg, ALIGN(last'.size + 8))
           /\ LET ftr == HDRP(last'.arg) + SizeOf(mem'[HDRP(last'.arg)]) - 4
              IN  ftr \in Addr /\ mem'[ftr] = mem'[HDRP(last'.arg)]]_vars

\* mm_malloc(n), called in the current state, would return NULL
MallocFails(n) ==
    mm_malloc(Machine, n).m.fault = "none" /\ mm_malloc(Machine, n).ret = NULL

\* the case of C11 for the block at ptr and the new size: the block is too
\* small, it cannot grow into its successor, and the allocation of a new block
\* fails
FallbackFails(ptr, size) ==
    /\ HDRP(ptr) \in Addr /\ BlockAlloc(ptr) = 1
    /\ BlockSize(ptr) < ALIGN(size + 8)
    /\ ~GrowInPlaceCase(ptr, size)
    /\ MallocFails(size)

\* C11 (as stated): Resize failure ordering.  When mm_realloc(p, n) has to
\* allocate a new block and that allocation fails, it returns NULL and the
\* block at p keeps its tags and every heap word keeps its value.
C11_ResizeFailure ==
    [][(Ready /\ last'.op = "realloc" /\ FallbackFails(last'.arg, last'.size))
        => /\ last'.ret = NULL
           /\ fault' = "none"
           /\ mem_brk' = mem_brk
           /\ \A a \in Addr : a < mem_brk => mem'[a] = mem[a]]_vars

\* the machine state after the step
MachineAfter == [mem |-> mem', brk |-> mem_brk', fault |-> fault', oob |-> FALSE,
                 sbrk |-> <<>>]

\* C12: Bootstrap result.  mm_init asks the growth primitive for exactly 16
\* bytes.  If that is refused it returns -1 and no word is written; otherwise
\* it returns 0, the heap is the padding word 0, the prologue header and
\* footer (size 8, allocated) and the epilogue header (size 0, allocated) at
\* offset 12, heap_startp is heap_lo + 8 and a search from it finds no block.
C12_Bootstrap ==
    [][(last'.op = "init")
        => /\ Len(last'.sbrk) = 1 /\ last'.sbrk[1].incr = 16
           /\ fault' = "none"
           /\ (last'.sbrk[1].ret = -1)
                  => /\ last'.ret = -1
                     /\ mem' = mem /\ mem_brk' = mem_brk
                     /\ heap_startp' = heap_startp
           /\ (last'.sbrk[1].ret # -1)
                  => /\ last'.ret = 0
                     /\ mem_brk' = 16
                     /\ mem'[0] = 0
                     /\ mem'[4] = PACK(8, 1) /\ mem'[8] = PACK(8, 1)
                     /\ mem'[12] = PACK(0, 1)
                     /\ \A a \in Addr : a >= 16 => mem'[a] = mem[a]
                     /\ heap_startp' = mem_heap_lo + 8
                     /\ \A n \in Reqs :
                            FindFit(MachineAfter, heap_startp', ALIGN(n + 8)).ret
                                = NULL]_vars

\* mm_init has just succeeded on an arena whose words were not 0
C12_Witness ==
    /\ last.op = "init" /\ last.ret = 0 /\ heap_startp = 8
    /\ mem_brk = 16 /\ mem[16] # 0

\* the case of C13 for a request of n bytes: an earlier mm_malloc has failed,
\* the last call freed a block of at least ALIGN(n + 8) bytes, and the growth
\* primitive would refuse a request for that many bytes
RecoveryCase(n) ==
    /\ Ready /\ failed
    /\ last.op = "free"
    /\ SizeOf(mem[HDRP(last.arg)]) >= ALIGN(n + 8)
    /\ mem_brk + ALIGN(n + 8) > mem_max

\* C13 (as stated): Recovery after out-of-memory.  After an mm_malloc has
\* returned NULL and the caller has freed a block of size >= ALIGN(n + 8), the
\* next mm_malloc(n) completes and returns a valid payload pointer inside the
\* heap, although the growth primitive is still exhausted.
C13_Recovery ==
    [][(RecoveryCase(last'.arg) /\ last'.op = "malloc")
        => /\ fault' = "none"
           /\ last'.ret # NULL
           /\ ValidPayload(mem', mem_brk', last'.ret, ALIGN(last'.arg + 8))]_vars

\* C14 (as stated): The assertion in extend_heap never fails.  In every state
\* reached by mm_init and then mm_malloc and mm_free calls no call has
\* aborted in assert(size_last < newsize), and every amount the last call
\* asked of the growth primitive is positive.
C14_AssertHolds ==
    /\ fault # "abort"
    /\ \A i \in 1..Len(last.sbrk) : last.sbrk[i].incr > 0

\* the block immediately preceding the epilogue: the last block of the walk
TailBlock == Blocks[Len(Blocks)]

\* what a growth for a block of N bytes has to ask of the growth primitive
GrowthNeeded(N) ==
    IF BlockAlloc(TailBlock) = 0 THEN N - BlockSize(TailBlock) ELSE N

\* C15 (as stated): Growth reuses the trailing free block.  When mm_malloc has
\* to grow the heap for a block of N bytes, the growth primitive is asked once,
\* for N - s bytes when the block before the epilogue is free with size s and
\* for N bytes when it is allocated; when the growth succeeds the block handed
\* back has exactly N bytes: it is tagged with N and ends where the epilogue
\* header begins.
C15_GrowthReuse ==
    [][(Ready /\ last'.op = "malloc" /\ Fits(last'.arg) = {})
        => /\ fault' = "none"
           /\ Len(last'.sbrk) = 1
           /\ last'.sbrk[1].incr = GrowthNeeded(ALIGN(last'.arg + 8))
           /\ (last'.sbrk[1].ret # -1)
                  => /\ last'.ret # NULL
                     /\ SizeOf(mem'[HDRP(last'.ret)]) = ALIGN(last'.arg + 8)
                     /\ HDRP(last'.ret) + ALIGN(last'.arg + 8)
                            = mem_heap_hi(MachineAfter) - 3]_vars

\* the position in the walk of the block whose payload pointer is bp
IndexOf(bp) == CHOOSE i \in 1..Len(Blocks) : Blocks[i] = bp
OnWalk(bp) == \E i \in 1..Len(Blocks) : Blocks[i] = bp

\* the neighbours of the block at bp in the walk, and whether they are free
PredFree(bp) ==
    IndexOf(bp) > 1 /\ BlockAlloc(Blocks[IndexOf(bp) - 1]) = 0
SuccFree(bp) ==
    IndexOf(bp) < Len(Blocks) /\ BlockAlloc(Blocks[IndexOf(bp) + 1]) = 0

\* header address and size of the block that freeing bp has to produce
MergedStart(bp) ==
    IF PredFree(bp) THEN HDRP(Blocks[IndexOf(bp) - 1]) ELSE HDRP(bp)
MergedSize(bp) ==
    BlockSize(bp)
        + (IF PredFree(bp) THEN BlockSize(Blocks[IndexOf(bp) - 1]) ELSE 0)
        + (IF SuccFree(bp) THEN BlockSize(Blocks[IndexOf(bp) + 1]) ELSE 0)

\* C16 (as stated): Coalescing result.  After mm_free(p) the freed block is
\* merged with every free neighbour: the resulting free block starts at the
\* predecessor's header if the predecessor was free (else at p's header), its
\* size is the sum of the merged sizes, and its header and its footer both
\* hold that size with the allocated bit clear.
C16_Coalesced ==
    [][(Ready /\ last'.op = "free" /\ OnWalk(last'.arg))
        => /\ fault' = "none"
           /\ mem'[MergedStart(last'.arg)] = PACK(MergedSize(last'.arg), 0)
           /\ MergedStart(last'.arg) + MergedSize(last'.arg) - 4 \in Addr
           /\ mem'[MergedStart(last'.arg) + MergedSize(last'.arg) - 4]
                  = PACK(MergedSize(last'.arg), 0)]_vars

\* the minimum block size of the spec: header and footer plus room to host
\* another header and footer
MinBlock == 2 * ALIGNMENT

\* no block of the walk behind the prologue is smaller than the minimum
C17_NoSmallBlock ==
    \A i \in 2..Len(Blocks) : BlockSize(Blocks[i]) >= MinBlock

\* a mm_malloc that finds a free block splits it only when the excess is at
\* least one minimum block, and else allocates it with its original size
C17_SplitRule ==
    (Ready /\ last'.op = "malloc" /\ Fits(last'.arg) # {})
        => LET b == Lowest(Fits(last'.arg))
               N == ALIGN(last'.arg + 8)
           IN  /\ fault' = "none"
               /\ AllocOf(mem'[HDRP(b)]) = 1
               /\ SizeOf(mem'[HDRP(b)])
                      = IF BlockSize(b) - N >= MinBlock THEN N ELSE BlockSize(b)
               /\ (BlockSize(b) - N >= MinBlock)
                      => mem'[HDRP(b + N)] = PACK(BlockSize(b) - N, 0)

\* C17 (as stated): Split threshold.  mm_malloc splits the found free block
\* only when its size exceeds the needed size by at least the minimum block
\* size (16 bytes) and else allocates the whole block with its original size;
\* no block smaller than the minimum block size, the prologue apart, is ever
\* created, neither by a split nor by a small request such as malloc(0).
C17_SplitThreshold ==
    /\ [](Ready => C17_NoSmallBlock)
    /\ [][C17_SplitRule]_vars

\* C18 (as stated): Memory safety of the allocator.  Every word that the last
\* call of mm_init, mm_malloc or mm_free (with split, extend_heap and coalesce)
\* has read or written lies inside the heap [heap_lo, heap_hi] as it was at
\* the time of the access, and no call has accessed a word outside the arena.
C18_InBounds ==
    /\ last.op \in {"init", "malloc", "free"} => ~last.oob
    /\ fault # "segv"

\* the words of the block whose payload pointer is bp: header, payload, footer
BlockWords(bp) == {a \in Addr : HDRP(bp) <= a /\ a < HDRP(bp) + BlockSize(bp)}

\* the neighbours of the block at bp by its boundary tags: the word before
\* its header is the predecessor's footer, the word behind its footer the
\* successor's header
PredFooter(bp) == HDRP(bp) - 4
SuccHeader(bp) == HDRP(bp) + BlockSize(bp)

\* the words mm_free(bp) may change: the header and the footer of the block,
\* the header of a free predecessor, the footer of a free successor
FreeMayWrite(bp) ==
    {HDRP(bp), FooterAddr(bp)}
        \cup (IF PredFooter(bp) \in Addr /\ AllocOf(mem[PredFooter(bp)]) = 0
              THEN {HDRP(bp) - SizeOf(mem[PredFooter(bp)])} ELSE {})
        \cup (IF SuccHeader(bp) \in Addr /\ AllocOf(mem[SuccHeader(bp)]) = 0
              THEN {SuccHeader(bp) + SizeOf(mem[SuccHeader(bp)]) - 4} ELSE {})

\* C19: Frame condition of mm_free.  mm_free(p) on a live pointer does not
\* call the growth primitive and leaves the heap bounds as they were; the only
\* words it changes are the header and footer of the freed block and the outer
\* header or footer of a free neighbour; every word (tags and payload) of
\* every other block the client holds is the same before and after the call.
C19_FreeFrame ==
    [][(Ready /\ last'.op = "free")
        => /\ fault' = "none"
           /\ last'.sbrk = <<>>
           /\ mem_brk' = mem_brk
           /\ \A a \in Addr : mem'[a] # mem[a] => a \in FreeMayWrite(last'.arg)
           /\ \A l \in live' : \A a \in BlockWords(l.p) : mem'[a] = mem[a]]_vars

====
